---- MODULE Spec2Model ----
(***************************************************************************)
(* Model of the EPO patent harvesting pipeline (main.py) and of the        *)
(* embedding pipeline (embeddeAndStore.py).                                *)
(*                                                                         *)
(* Both scripts submit every work item to a ThreadPoolExecutor and walk    *)
(* the futures with as_completed.  The harvesting workers share one        *)
(* EPOClient, whose ensure_token refreshes the bearer token without any    *)
(* lock; its four steps (test, authentication call, header update,         *)
(* timestamp update) are separate actions here so that threads interleave  *)
(* the way the interpreter lets them.                                      *)
(***************************************************************************)
EXTENDS Integers, Sequences, FiniteSets, Bags, TLC

\* ------------------------------------------------------------------ bounds
MAX_THREADS == 2      \* pool width (20 in both scripts), scaled down
MaxItems == 2         \* longest keyword list
MaxAbstracts == 3     \* most harvested abstracts read by the embedding stage
MaxDocs == 2          \* most publication references in one search answer
Delay == 2            \* RateLimiter.delay, in clock units
MaxWaits == 2         \* wait() calls per thread
MaxRateTime == 4      \* last clock value of the rate limiter's runs
MaxTicks == 1         \* how many times the clock advances in one run

\* ------------------------------------------------------- program constants
token_valid_for == 1200      \* 20 * 60 seconds
REFRESH_MARGIN == 60         \* "about to expire in ~1 minute"
SLICE_LIMIT == 100           \* patent_docs[:100]

\* A pool that starts one thread for every submitted item.
Workers_perItem == 1..MaxAbstracts

Workers == 1..MAX_THREADS
Items == 1..MaxItems
Abstracts == 1..MaxAbstracts
NoItem == 0
NoThread == 0
NoTime == 0 - 1

\* The clock moves by one of these amounts (seconds) between two steps: the
\* last second before a refresh is due, and the first at which it is.
TimeSteps == {token_valid_for - REFRESH_MARGIN - 1, token_valid_for - REFRESH_MARGIN}

Min(a, b) == IF a < b THEN a ELSE b

\* --------------------------------------------------------- remote answers
\* The authentication endpoint: the n-th token it issues, or one of the
\* failures that get_oauth_token turns into the empty string.
AuthResponses(n) ==
    {[kind |-> "ok", access_token |-> "tok" \o ToString(n)]}
        \cup {[kind |-> k, access_token |-> ""] : k \in {"http_error", "bad_json"}}

\* get_oauth_token: the access token, "" whenever anything raised.
get_oauth_token(resp) ==
    IF resp.kind = "ok" THEN resp.access_token ELSE ""

\* f'Bearer {self.token}'
Bearer(tok) == "Bearer " \o tok

\* One publication reference of a search answer; a sparse one lacks the
\* country, doc-number and kind entries, which then default to "".
FullDoc(j) ==
    [country |-> "EP", number |-> ToString(100 + j), kind |-> "A1", idtype |-> "docdb"]
SparseDoc ==
    [country |-> "", number |-> "", kind |-> "", idtype |-> ""]

\* The references a search answers with: the first n of a fixed catalogue in
\* which every second reference is sparse.
DocList(n) == [j \in 1..n |-> IF j % 2 = 0 THEN SparseDoc ELSE FullDoc(j)]

\* What requests.get + raise_for_status + json() can give search_patents.
\*   transport  : RequestException without a response (connection, timeout)
\*   http_error : HTTPError raised by raise_for_status (response attached)
\*   bad_json   : the body is not JSON
\*   falsy      : JSON that is falsy ({}), "if not results"
\*   no_docs    : the reference list is missing or empty
\*   bad_shape  : JSON whose shape breaks the chained lookups or the slice
\*   ok         : a list of 1..MaxDocs references
SearchResponses ==
    {[kind |-> k, docs |-> << >>] :
        k \in {"transport", "http_error", "bad_json", "falsy", "no_docs", "bad_shape"}}
        \cup {[kind |-> "ok", docs |-> DocList(n)] : n \in 1..MaxDocs}

\* The same for get_abstract: ok carries the abstract text, no_abstract lacks
\* one of the nested keys, bad_shape has a list where a dict is expected.
DetailKinds == {"ok", "no_abstract", "transport", "http_error", "bad_json", "bad_shape"}

\* patent_docs[:100]
Slice(s) == SubSeq(s, 1, Min(Len(s), SLICE_LIMIT))

\* f"{country}{number}{kind}"
PatentNumber(doc) == doc.country \o doc.number \o doc.kind

\* The patent numbers the catalogue of search answers leads to.
PatentNumbers == {PatentNumber(DocList(MaxDocs)[j]) : j \in 1..MaxDocs}

\* search_patents, after the request: "raise" when an exception leaves the
\* method, "none" when it returns None, "json" when it returns the body.
\* The handler of RequestException evaluates e.response.content; e.response
\* is None for a transport error and for a JSON decoding error, so the
\* handler itself raises AttributeError there.
search_patents(resp) ==
    CASE resp.kind = "transport"  -> "raise"
      [] resp.kind = "bad_json"   -> "raise"
      [] resp.kind = "http_error" -> "none"
      [] OTHER                    -> "json"

NoRecord == [patentNumber |-> "", abstract |-> ""]

\* get_abstract, after the request: the record it returns, or raised = TRUE
\* when the chained .get calls meet a non-dict (AttributeError is no
\* RequestException, so the method's handler does not catch it).
get_abstract(patent_number, kind) ==
    CASE kind = "ok" ->
            [raised |-> FALSE,
             value |-> [patentNumber |-> patent_number, abstract |-> "abstract text"]]
      [] kind = "no_abstract" ->
            [raised |-> FALSE,
             value |-> [patentNumber |-> patent_number, abstract |-> "No abstract available"]]
      [] kind \in {"transport", "http_error", "bad_json"} ->
            [raised |-> FALSE,
             value |-> [patentNumber |-> patent_number, abstract |-> "Abstract fetch failed"]]
      [] OTHER -> [raised |-> TRUE, value |-> NoRecord]

\* ------------------------------------------------------------------- state
VARIABLES
    stage,                \* "harvest" (main.py) or "embed" (embeddeAndStore.py)
    mainPc,               \* main(): "start", "running", "done", "exit", "raised"
    nItems,               \* number of submitted futures
    wellFormed,           \* embed: does record i carry a patentNumber
    queue,                \* the executor's work queue (item ids, FIFO)
    future,               \* future state per item
    collected,            \* futures the as_completed loop has visited
    succeeded, failed,    \* visits that took / did not take the error branch
    pc, cur,              \* per worker thread: position, item being run
    docs, idx, rec,       \* per worker: patent_docs, loop index, abstract_data
    refresh, prior,       \* per worker: this ensure_token call's refresh so
                          \* far, and the token it found when it began one
    token, headers, token_acquired_time,   \* EPOClient fields
    issued,               \* tokens the authentication endpoint has issued
    now, ticks,           \* time.time() and the number of clock steps
    store,                \* MongoDB collection: bag of inserted records
    vectors,              \* Cloudflare index: ids inserted
    hist,                 \* per item: what happened while it was processed
    lock,                 \* RateLimiter._lock: the thread holding it, or NoThread
    last_call,            \* RateLimiter.last_call: thread id -> timestamp
    waitPc, wake,         \* per thread: position inside wait(), end of its sleep
    waits, returned,      \* per thread: wait() calls returned, time of the last return
    run,                  \* 1 in the first run of the harvesting script, 2 in the second
    firstStore,           \* the collection as the first run left it
    remoteSearch,         \* per keyword: the answer the search gave so far, if any
    remoteDetail          \* per patent number: the answer the detail fetch gave so far

poolVars == <<stage, mainPc, nItems, wellFormed, queue, future, collected, succeeded, failed>>
workerVars == <<pc, cur, docs, idx, rec, refresh, prior>>
clientVars == <<token, headers, token_acquired_time, issued>>
clockVars == <<now, ticks>>
sinkVars == <<store, vectors>>
rateVars == <<lock, last_call, waitPc, wake, waits, returned>>
runVars == <<run, firstStore, remoteSearch, remoteDetail>>
extraVars == <<rateVars, runVars>>
vars == <<poolVars, workerVars, clientVars, clockVars, sinkVars, hist, extraVars>>

NoHist ==
    [search |-> "none", matches |-> 0, fetched |-> 0, written |-> 0,
     sentinels |-> 0, detailFails |-> 0, detailRaised |-> 0, storeFails |-> 0,
     embed |-> "none", cfstore |-> "none"]

Finished(i) == future[i] \in {"RETURNED", "RAISED"}

\* The test with > in place of >=.
RefreshDue_strict(elapsed) == elapsed > token_valid_for - REFRESH_MARGIN

\* if (time.time() - self.token_acquired_time) >= (self.token_valid_for - 60)
RefreshDue(elapsed) == elapsed >= token_valid_for - REFRESH_MARGIN

\* ---------------------------------------------------------------- initial
\* main.py builds the EPOClient first: one authentication call whose result
\* becomes the token (possibly ""), the header and the timestamp.
Init ==
    /\ stage \in {"harvest", "embed"}
    /\ mainPc = "start"
    /\ nItems = 0
    /\ wellFormed = << >>
    /\ queue = << >>
    /\ future = << >>
    /\ collected = {}
    /\ succeeded = 0
    /\ failed = 0
    /\ pc = [w \in Workers |-> "idle"]
    /\ cur = [w \in Workers |-> NoItem]
    /\ docs = [w \in Workers |-> << >>]
    /\ idx = [w \in Workers |-> 0]
    /\ rec = [w \in Workers |-> NoRecord]
    /\ refresh = [w \in Workers |-> "none"]
    /\ prior = [w \in Workers |-> ""]
    /\ \E resp \in AuthResponses(1) :
          /\ token = IF stage = "harvest" THEN get_oauth_token(resp) ELSE ""
          /\ headers = Bearer(token)
          /\ issued = IF token = "" THEN 0 ELSE 1
    /\ token_acquired_time = 0
    /\ now = 0
    /\ ticks = 0
    /\ store = EmptyBag
    /\ lock = NoThread
    /\ last_call = << >>
    /\ waitPc = [w \in Workers |-> "out"]
    /\ wake = [w \in Workers |-> 0]
    /\ waits = [w \in Workers |-> 0]
    /\ returned = [w \in Workers |-> NoTime]
    /\ run = 1
    /\ firstStore = EmptyBag
    /\ remoteSearch = [i \in Items |-> {}]
    /\ remoteDetail = [n \in PatentNumbers |-> {}]
    /\ vectors = {}
    /\ hist = << >>

\* ------------------------------------------------------------------- main
\* Reading the input and submitting one future per item.  The embedding
\* script returns at once when MongoDB gave no abstracts.
Submit ==
    /\ UNCHANGED extraVars
    /\ mainPc = "start"
    /\ \E n \in 0..(IF stage = "embed" THEN MaxAbstracts ELSE MaxItems) :
          /\ nItems' = n
          /\ queue' = [i \in 1..n |-> i]
          /\ future' = [i \in 1..n |-> "PENDING"]
          /\ hist' = [i \in 1..n |-> NoHist]
          /\ IF stage = "embed"
                THEN \E wf \in [1..n -> BOOLEAN] : wellFormed' = wf
                ELSE wellFormed' = [i \in 1..n |-> TRUE]
          /\ mainPc' = IF stage = "embed" /\ n = 0 THEN "exit" ELSE "running"
    /\ UNCHANGED <<stage, collected, succeeded, failed>>
    /\ UNCHANGED <<workerVars, clientVars, clockVars, sinkVars>>

\* The loop with a future that holds an exception left uncounted.
Collect_dropRaised(i) ==
    /\ UNCHANGED extraVars
    /\ mainPc = "running"
    /\ i \in 1..nItems
    /\ i \notin collected
    /\ Finished(i)
    /\ collected' = collected \cup {i}
    /\ IF future[i] = "RAISED"
          THEN failed' = failed /\ succeeded' = succeeded
          ELSE succeeded' = succeeded + 1 /\ failed' = failed
    /\ UNCHANGED <<stage, mainPc, nItems, wellFormed, queue, future>>
    /\ UNCHANGED <<workerVars, clientVars, clockVars, sinkVars, hist>>

\* A loop that lets the exception of a failed item escape: the run ends
\* there and the items not yet started are cancelled.
Collect_abortOnRaise(i) ==
    /\ UNCHANGED extraVars
    /\ mainPc = "running"
    /\ i \in 1..nItems
    /\ i \notin collected
    /\ Finished(i)
    /\ collected' = collected \cup {i}
    /\ IF future[i] = "RAISED"
          THEN /\ failed' = failed + 1 /\ succeeded' = succeeded
               /\ mainPc' = "raised"
               /\ queue' = << >>
          ELSE /\ succeeded' = succeeded + 1 /\ failed' = failed
               /\ mainPc' = mainPc
               /\ queue' = queue
    /\ UNCHANGED <<stage, nItems, wellFormed, future>>
    /\ UNCHANGED <<workerVars, clientVars, clockVars, sinkVars, hist>>

\* One turn of "for future in as_completed(futures)": the future is done, it
\* is visited once, and the error branch is taken iff it holds an exception.
\* Neither future.exception() nor the guarded future.result() raises.
Collect(i) ==
    /\ UNCHANGED extraVars
    /\ mainPc = "running"
    /\ i \in 1..nItems
    /\ i \notin collected
    /\ Finished(i)
    /\ collected' = collected \cup {i}
    /\ IF future[i] = "RAISED"
          THEN failed' = failed + 1 /\ succeeded' = succeeded
          ELSE succeeded' = succeeded + 1 /\ failed' = failed
    /\ UNCHANGED <<stage, mainPc, nItems, wellFormed, queue, future>>
    /\ UNCHANGED <<workerVars, clientVars, clockVars, sinkVars, hist>>

\* A main that returns as soon as nothing is left to hand out, without
\* waiting for the items that are still running.
Complete_noWait ==
    /\ UNCHANGED extraVars
    /\ mainPc = "running"
    /\ queue = << >>
    /\ mainPc' = "done"
    /\ UNCHANGED <<stage, nItems, wellFormed, queue, future, collected, succeeded, failed>>
    /\ UNCHANGED <<workerVars, clientVars, clockVars, sinkVars, hist>>

\* Leaving the with block (shutdown(wait=True)) and logging the end.
Complete ==
    /\ UNCHANGED extraVars
    /\ mainPc = "running"
    /\ collected = 1..nItems
    /\ \A w \in Workers : pc[w] = "idle"
    /\ mainPc' = "done"
    /\ UNCHANGED <<stage, nItems, wellFormed, queue, future, collected, succeeded, failed>>
    /\ UNCHANGED <<workerVars, clientVars, clockVars, sinkVars, hist>>

\* The clock, read by ensure_token only.
Tick(d) ==
    /\ UNCHANGED extraVars
    /\ mainPc = "running"
    /\ stage = "harvest"
    /\ ticks < MaxTicks
    /\ now' = now + d
    /\ ticks' = ticks + 1
    /\ UNCHANGED <<poolVars, workerVars, clientVars, sinkVars, hist>>

\* ---------------------------------------------------------------- workers
\* A pool thread that does not survive an exception of its callable.
Finish_threadDies(w, outcome) ==
    /\ future' = [future EXCEPT ![cur[w]] = outcome]
    /\ pc' = [pc EXCEPT ![w] = IF outcome = "RAISED" THEN "dead" ELSE "idle"]
    /\ cur' = [cur EXCEPT ![w] = NoItem]
    /\ docs' = [docs EXCEPT ![w] = << >>]
    /\ idx' = [idx EXCEPT ![w] = 0]
    /\ rec' = [rec EXCEPT ![w] = NoRecord]
    /\ refresh' = [refresh EXCEPT ![w] = "none"]
    /\ prior' = [prior EXCEPT ![w] = ""]
    /\ UNCHANGED <<stage, mainPc, nItems, wellFormed, queue, collected, succeeded, failed>>

\* _WorkItem.run: the callable returned (set_result) or raised
\* (set_exception); the thread goes back to the queue.
Finish(w, outcome) ==
    /\ future' = [future EXCEPT ![cur[w]] = outcome]
    /\ pc' = [pc EXCEPT ![w] = "idle"]
    /\ cur' = [cur EXCEPT ![w] = NoItem]
    /\ docs' = [docs EXCEPT ![w] = << >>]
    /\ idx' = [idx EXCEPT ![w] = 0]
    /\ rec' = [rec EXCEPT ![w] = NoRecord]
    /\ refresh' = [refresh EXCEPT ![w] = "none"]
    /\ prior' = [prior EXCEPT ![w] = ""]
    /\ UNCHANGED <<stage, mainPc, nItems, wellFormed, queue, collected, succeeded, failed>>

\* A pool thread that reads the head of the queue without removing it.
Take_noPop(w) ==
    /\ UNCHANGED extraVars
    /\ mainPc = "running"
    /\ pc[w] = "idle"
    /\ queue # << >>
    /\ cur' = [cur EXCEPT ![w] = Head(queue)]
    /\ queue' = queue
    /\ future' = [future EXCEPT ![Head(queue)] = "RUNNING"]
    /\ pc' = [pc EXCEPT ![w] = IF stage = "harvest" THEN "check" ELSE "embed"]
    /\ UNCHANGED <<stage, mainPc, nItems, wellFormed, collected, succeeded, failed>>
    /\ UNCHANGED <<docs, idx, rec, refresh, prior>>
    /\ UNCHANGED <<clientVars, clockVars, sinkVars, hist>>

\* A pool thread takes the next work item off the queue and starts the
\* callable: process_keyword begins with search_patents, hence ensure_token.
Take(w) ==
    /\ UNCHANGED extraVars
    /\ mainPc = "running"
    /\ pc[w] = "idle"
    /\ queue # << >>
    /\ cur' = [cur EXCEPT ![w] = Head(queue)]
    /\ queue' = Tail(queue)
    /\ future' = [future EXCEPT ![Head(queue)] = "RUNNING"]
    /\ pc' = [pc EXCEPT ![w] = IF stage = "harvest" THEN "check" ELSE "embed"]
    /\ UNCHANGED <<stage, mainPc, nItems, wellFormed, collected, succeeded, failed>>
    /\ UNCHANGED <<docs, idx, rec, refresh, prior>>
    /\ UNCHANGED <<clientVars, clockVars, sinkVars, hist>>

\* ensure_token, line 74: the test.
EnsureCheck(w) ==
    /\ UNCHANGED extraVars
    /\ pc[w] = "check"
    /\ IF RefreshDue(now - token_acquired_time)
          THEN /\ pc' = [pc EXCEPT ![w] = "auth"]
               /\ refresh' = [refresh EXCEPT ![w] = "calling"]
               /\ prior' = [prior EXCEPT ![w] = token]
          ELSE /\ pc' = [pc EXCEPT ![w] = "get"]
               /\ UNCHANGED <<refresh, prior>>
    /\ UNCHANGED <<cur, docs, idx, rec>>
    /\ UNCHANGED <<poolVars, clientVars, clockVars, sinkVars, hist>>

\* ensure_token, line 75: get_oauth_token answers and self.token is assigned.
\* The call is in flight from EnsureCheck until this step.
AuthReturn(w) ==
    /\ UNCHANGED extraVars
    /\ pc[w] = "auth"
    /\ \E resp \in AuthResponses(issued + 1) :
          /\ token' = get_oauth_token(resp)
          /\ issued' = IF resp.kind = "ok" THEN issued + 1 ELSE issued
          /\ refresh' = [refresh EXCEPT ![w] = IF resp.kind = "ok" THEN "ok" ELSE "failed"]
    /\ pc' = [pc EXCEPT ![w] = "hdr"]
    /\ UNCHANGED <<cur, docs, idx, rec, prior>>
    /\ UNCHANGED <<headers, token_acquired_time>>
    /\ UNCHANGED <<poolVars, clockVars, sinkVars, hist>>

\* ensure_token, line 76.
SetHeader(w) ==
    /\ UNCHANGED extraVars
    /\ pc[w] = "hdr"
    /\ headers' = Bearer(token)
    /\ pc' = [pc EXCEPT ![w] = "time"]
    /\ UNCHANGED <<cur, docs, idx, rec, refresh, prior>>
    /\ UNCHANGED <<token, token_acquired_time, issued>>
    /\ UNCHANGED <<poolVars, clockVars, sinkVars, hist>>

\* An ensure_token that restarts the validity window only when the refresh
\* produced a token.
SetTime_onlyOnSuccess(w) ==
    /\ UNCHANGED extraVars
    /\ pc[w] = "time"
    /\ token_acquired_time' = IF refresh[w] = "ok" THEN now ELSE token_acquired_time
    /\ pc' = [pc EXCEPT ![w] = "get"]
    /\ UNCHANGED <<cur, docs, idx, rec, refresh, prior>>
    /\ UNCHANGED <<token, headers, issued>>
    /\ UNCHANGED <<poolVars, clockVars, sinkVars, hist>>

\* ensure_token, line 77.
SetTime(w) ==
    /\ UNCHANGED extraVars
    /\ pc[w] = "time"
    /\ token_acquired_time' = now
    /\ pc' = [pc EXCEPT ![w] = "get"]
    /\ UNCHANGED <<cur, docs, idx, rec, refresh, prior>>
    /\ UNCHANGED <<token, headers, issued>>
    /\ UNCHANGED <<poolVars, clockVars, sinkVars, hist>>

\* search_patents after ensure_token, and process_keyword up to the loop.
SearchAnswer(w, resp) ==
    /\ pc[w] = "get"
    /\ idx[w] = 0
    /\    LET i == cur[w]
              r == search_patents(resp)
              patent_docs == Slice(resp.docs)
          IN  /\ hist' = [hist EXCEPT ![i].search = resp.kind,
                                      ![i].matches = Len(patent_docs)]
              /\ CASE r = "raise" -> Finish(w, "RAISED")
                   [] r = "none" -> Finish(w, "RETURNED")
                   [] r = "json" /\ resp.kind \in {"falsy", "no_docs", "bad_shape"} ->
                        Finish(w, "RETURNED")
                   [] OTHER ->
                        /\ docs' = [docs EXCEPT ![w] = patent_docs]
                        /\ idx' = [idx EXCEPT ![w] = 1]
                        /\ pc' = [pc EXCEPT ![w] = "check"]
                        /\ refresh' = [refresh EXCEPT ![w] = "none"]
                        /\ prior' = [prior EXCEPT ![w] = ""]
                        /\ UNCHANGED <<cur, rec, poolVars>>
    /\ UNCHANGED <<clientVars, clockVars, sinkVars>>

\* The search, whatever the remote service answers.
SearchRequest(w) ==
    /\ \E resp \in SearchResponses : SearchAnswer(w, resp)
    /\ UNCHANGED extraVars

\* get_abstract after ensure_token, for the document the loop is at.  An
\* exception leaving get_abstract lands in the handler at line 156, outside
\* the loop: process_keyword logs and returns.
DetailAnswer(w, kind) ==
    /\ pc[w] = "get"
    /\ idx[w] >= 1
    /\    LET i == cur[w]
              doc == docs[w][idx[w]]
              r == get_abstract(PatentNumber(doc), kind)
              isFail == kind \in {"transport", "http_error", "bad_json", "bad_shape"}
          IN  /\ hist' = [hist EXCEPT
                            ![i].fetched = @ + 1,
                            ![i].detailFails = @ + (IF isFail THEN 1 ELSE 0),
                            ![i].detailRaised = @ + (IF r.raised THEN 1 ELSE 0)]
              /\ IF r.raised
                    THEN Finish(w, "RETURNED")
                    ELSE /\ rec' = [rec EXCEPT ![w] = r.value]
                         /\ pc' = [pc EXCEPT ![w] = "insert"]
                         /\ UNCHANGED <<cur, docs, idx, refresh, prior, poolVars>>
    /\ UNCHANGED <<clientVars, clockVars, sinkVars>>

\* The detail fetch, whatever the remote service answers.
DetailRequest(w) ==
    /\ \E kind \in DetailKinds : DetailAnswer(w, kind)
    /\ UNCHANGED extraVars

\* collection.insert_one(abstract_data) and the end of the loop body.  A
\* failed insert raises into the handler at line 156 too.
InsertOutcome(w, ok) ==
    /\ pc[w] = "insert"
    /\    LET i == cur[w] IN
          IF ok
            THEN /\ store' = store (+) SetToBag({rec[w]})
                 /\ hist' = [hist EXCEPT
                              ![i].written = @ + 1,
                              ![i].sentinels = @ +
                                  (IF rec[w].abstract = "Abstract fetch failed" THEN 1 ELSE 0)]
                 /\ IF idx[w] < Len(docs[w])
                      THEN /\ idx' = [idx EXCEPT ![w] = @ + 1]
                           /\ pc' = [pc EXCEPT ![w] = "check"]
                           /\ rec' = [rec EXCEPT ![w] = NoRecord]
                           /\ refresh' = [refresh EXCEPT ![w] = "none"]
                           /\ prior' = [prior EXCEPT ![w] = ""]
                           /\ UNCHANGED <<cur, docs, poolVars>>
                      ELSE Finish(w, "RETURNED")
            ELSE /\ store' = store
                 /\ hist' = [hist EXCEPT ![i].storeFails = @ + 1]
                 /\ Finish(w, "RETURNED")
    /\ UNCHANGED <<clientVars, clockVars, vectors>>

\* The insert into a collection that may refuse any record.
Insert(w) ==
    /\ \E ok \in BOOLEAN : InsertOutcome(w, ok)
    /\ UNCHANGED extraVars

\* embed_abstract.  Both the try block and its handler format
\* abstract['patentNumber'], so a record without that key raises KeyError out
\* of the handler; otherwise a failed call is logged and None is returned,
\* and process_abstract skips the store.
Embed(w) ==
    /\ UNCHANGED extraVars
    /\ pc[w] = "embed"
    /\ LET i == cur[w] IN
         IF ~wellFormed[i]
           THEN /\ hist' = [hist EXCEPT ![i].embed = "raised"]
                /\ Finish(w, "RAISED")
           ELSE \E ok \in BOOLEAN :
                  IF ok
                    THEN /\ hist' = [hist EXCEPT ![i].embed = "ok"]
                         /\ pc' = [pc EXCEPT ![w] = "cfstore"]
                         /\ UNCHANGED <<cur, docs, idx, rec, refresh, prior, poolVars>>
                    ELSE /\ hist' = [hist EXCEPT ![i].embed = "failed"]
                         /\ Finish(w, "RETURNED")
    /\ UNCHANGED <<clientVars, clockVars, sinkVars>>

\* store_embedding_in_cloudflare: True, False (success flag absent or false)
\* or False after an exception; process_abstract ignores the value.
CfStore(w) ==
    /\ UNCHANGED extraVars
    /\ pc[w] = "cfstore"
    /\ \E r \in {"success", "not_success", "exception"} :
          /\ hist' = [hist EXCEPT ![cur[w]].cfstore = r]
          /\ vectors' = IF r = "success" THEN vectors \cup {cur[w]} ELSE vectors
    /\ Finish(w, "RETURNED")
    /\ UNCHANGED <<clientVars, clockVars, store>>

Next ==
    \/ Submit
    \/ \E i \in Items \cup Abstracts : Collect(i)
    \/ Complete
    \/ \E d \in TimeSteps : Tick(d)
    \/ \E w \in Workers :
         \/ Take(w)
         \/ EnsureCheck(w)
         \/ AuthReturn(w)
         \/ SetHeader(w)
         \/ SetTime(w)
         \/ SearchRequest(w)
         \/ DetailRequest(w)
         \/ Insert(w)
         \/ Embed(w)
         \/ CfStore(w)

Spec == Init /\ [][Next]_vars

\* The steps of main and the steps of one pool thread.
MainStep ==
    \/ Submit
    \/ \E i \in Items \cup Abstracts : Collect(i)
    \/ Complete

WorkerStep(w) ==
    \/ Take(w)
    \/ EnsureCheck(w)
    \/ AuthReturn(w)
    \/ SetHeader(w)
    \/ SetTime(w)
    \/ SearchRequest(w)
    \/ DetailRequest(w)
    \/ Insert(w)
    \/ Embed(w)
    \/ CfStore(w)

\* The same program under fair scheduling: main and every pool thread keep
\* running while they have a step to take, and every remote or store call
\* returns or fails (each of them is one step of its thread).  Nothing is
\* assumed about the clock.
SpecFair ==
    /\ Init
    /\ [][Next]_vars
    /\ WF_vars(MainStep)
    /\ \A w \in Workers : WF_vars(WorkerStep(w))

\* ------------------------------------------------- the EPOClient on its own
\* The client object shared by threads that call search_patents and
\* get_abstract in any number and order, as the pool threads do while they
\* work through their keywords.  Construction is as in main(); no work item
\* is involved.
InitClient ==
    /\ Init
    /\ stage = "harvest"

\* The client is built and in use.
StartClient ==
    /\ UNCHANGED extraVars
    /\ mainPc = "start"
    /\ stage = "harvest"
    /\ mainPc' = "running"
    /\ UNCHANGED <<stage, nItems, wellFormed, queue, future, collected, succeeded, failed>>
    /\ UNCHANGED <<workerVars, clientVars, clockVars, sinkVars, hist>>

\* A thread enters search_patents or get_abstract: both begin with
\* self.ensure_token().
Call(w) ==
    /\ UNCHANGED extraVars
    /\ mainPc = "running"
    /\ pc[w] = "idle"
    /\ cur[w] = NoItem
    /\ pc' = [pc EXCEPT ![w] = "check"]
    /\ UNCHANGED <<cur, docs, idx, rec, refresh, prior>>
    /\ UNCHANGED <<poolVars, clientVars, clockVars, sinkVars, hist>>

\* requests.get(endpoint, headers=self.headers) and the rest of the method,
\* which touches no field of the client.
Respond(w) ==
    /\ UNCHANGED extraVars
    /\ pc[w] = "get"
    /\ cur[w] = NoItem
    /\ pc' = [pc EXCEPT ![w] = "idle"]
    /\ refresh' = [refresh EXCEPT ![w] = "none"]
    /\ prior' = [prior EXCEPT ![w] = ""]
    /\ UNCHANGED <<cur, docs, idx, rec>>
    /\ UNCHANGED <<poolVars, clientVars, clockVars, sinkVars, hist>>

NextClient ==
    \/ StartClient
    \/ \E d \in TimeSteps : Tick(d)
    \/ \E w \in Workers :
         \/ Call(w)
         \/ EnsureCheck(w)
         \/ AuthReturn(w)
         \/ SetHeader(w)
         \/ SetTime(w)
         \/ Respond(w)

SpecClient == InitClient /\ [][NextClient]_vars


\* ------------------------------------------------ the RateLimiter on its own
\* One RateLimiter shared by threads that call wait() any number of times.
\* The clock advances by one unit at a time, between any two steps.
InitRate ==
    /\ Init
    /\ stage = "harvest"

RateTick ==
    /\ now < MaxRateTime
    /\ now' = now + 1
    /\ UNCHANGED <<poolVars, workerVars, clientVars, ticks, sinkVars, hist, extraVars>>

\* A thread calls wait(): it comes to "with self._lock".
WaitCall(t) ==
    /\ waitPc[t] = "out"
    /\ waits[t] < MaxWaits
    /\ waitPc' = [waitPc EXCEPT ![t] = "acquire"]
    /\ UNCHANGED <<lock, last_call, wake, waits, returned>>
    /\ UNCHANGED <<poolVars, workerVars, clientVars, clockVars, sinkVars, hist, runVars>>

\* with self._lock: entered once the lock is free.
Acquire(t) ==
    /\ waitPc[t] = "acquire"
    /\ lock = NoThread
    /\ lock' = t
    /\ waitPc' = [waitPc EXCEPT ![t] = "check"]
    /\ UNCHANGED <<last_call, wake, waits, returned>>
    /\ UNCHANGED <<poolVars, workerVars, clientVars, clockVars, sinkVars, hist, runVars>>

\* A wait() that sleeps for the time already elapsed.
CheckElapsed_sleepsElapsed(t) ==
    /\ waitPc[t] = "check"
    /\ IF t \in DOMAIN last_call /\ now - last_call[t] < Delay
          THEN /\ wake' = [wake EXCEPT ![t] = now + (now - last_call[t])]
               /\ waitPc' = [waitPc EXCEPT ![t] = "sleep"]
          ELSE /\ wake' = wake
               /\ waitPc' = [waitPc EXCEPT ![t] = "stamp"]
    /\ UNCHANGED <<lock, last_call, waits, returned>>
    /\ UNCHANGED <<poolVars, workerVars, clientVars, clockVars, sinkVars, hist, runVars>>

\* Lines 38-41: a thread that has called before and finds less than delay
\* elapsed starts time.sleep(self.delay - elapsed), inside the with block.
CheckElapsed(t) ==
    /\ waitPc[t] = "check"
    /\ IF t \in DOMAIN last_call /\ now - last_call[t] < Delay
          THEN /\ wake' = [wake EXCEPT ![t] = now + (Delay - (now - last_call[t]))]
               /\ waitPc' = [waitPc EXCEPT ![t] = "sleep"]
          ELSE /\ wake' = wake
               /\ waitPc' = [waitPc EXCEPT ![t] = "stamp"]
    /\ UNCHANGED <<lock, last_call, waits, returned>>
    /\ UNCHANGED <<poolVars, workerVars, clientVars, clockVars, sinkVars, hist, runVars>>

\* time.sleep returns, no earlier than asked.
Wake(t) ==
    /\ waitPc[t] = "sleep"
    /\ now >= wake[t]
    /\ waitPc' = [waitPc EXCEPT ![t] = "stamp"]
    /\ UNCHANGED <<lock, last_call, wake, waits, returned>>
    /\ UNCHANGED <<poolVars, workerVars, clientVars, clockVars, sinkVars, hist, runVars>>

\* Line 42: self.last_call[thread_id] = time.time()
Stamp(t) ==
    /\ waitPc[t] = "stamp"
    /\ last_call' = [x \in DOMAIN last_call \cup {t} |->
                        IF x = t THEN now ELSE last_call[x]]
    /\ waitPc' = [waitPc EXCEPT ![t] = "release"]
    /\ UNCHANGED <<lock, wake, waits, returned>>
    /\ UNCHANGED <<poolVars, workerVars, clientVars, clockVars, sinkVars, hist, runVars>>

\* The with block ends: the lock is released and wait() returns.
Release(t) ==
    /\ waitPc[t] = "release"
    /\ lock' = NoThread
    /\ waitPc' = [waitPc EXCEPT ![t] = "out"]
    /\ waits' = [waits EXCEPT ![t] = @ + 1]
    /\ returned' = [returned EXCEPT ![t] = now]
    /\ UNCHANGED <<last_call, wake>>
    /\ UNCHANGED <<poolVars, workerVars, clientVars, clockVars, sinkVars, hist, runVars>>

NextRate ==
    \/ RateTick
    \/ \E t \in Workers :
         \/ WaitCall(t)
         \/ Acquire(t)
         \/ CheckElapsed(t)
         \/ Wake(t)
         \/ Stamp(t)
         \/ Release(t)

SpecRate == InitRate /\ [][NextRate]_vars


\* ------------------------------------------- the harvesting script run twice
\* main.py is run on a keyword file and, once that run has ended, run again
\* on the same file.  The collection refuses a record whose patentNumber it
\* already holds and accepts every other one; the remote service gives the
\* same answer whenever the same search or the same detail fetch is sent.
\* The clock does not reach a token refresh within the two runs.
InitTwice ==
    /\ Init
    /\ stage = "harvest"

\* search_patents for the thread's keyword: the answer this keyword got
\* before, if it was searched before.
SearchTwice(w) ==
    /\ pc[w] = "get"
    /\ idx[w] = 0
    /\ \E resp \in SearchResponses :
          /\ remoteSearch[cur[w]] \subseteq {resp}
          /\ SearchAnswer(w, resp)
          /\ remoteSearch' = [remoteSearch EXCEPT ![cur[w]] = {resp}]
    /\ UNCHANGED <<rateVars, run, firstStore, remoteDetail>>

\* get_abstract for the document the loop is at: the answer this patent
\* number got before, if it was fetched before.
DetailTwice(w) ==
    /\ pc[w] = "get"
    /\ idx[w] >= 1
    /\ LET n == PatentNumber(docs[w][idx[w]]) IN
         \E kind \in DetailKinds :
            /\ remoteDetail[n] \subseteq {kind}
            /\ DetailAnswer(w, kind)
            /\ remoteDetail' = [remoteDetail EXCEPT ![n] = {kind}]
    /\ UNCHANGED <<rateVars, run, firstStore, remoteSearch>>

\* insert_one into the collection with unique patentNumber: it raises
\* exactly when the number is already stored.
InsertUnique(w) ==
    /\ pc[w] = "insert"
    /\ InsertOutcome(w, \A r \in BagToSet(store) : r.patentNumber # rec[w].patentNumber)
    /\ UNCHANGED extraVars

\* The second run: a new EPOClient, and the same keywords submitted in the
\* order list(set(...)) happens to give.
Restart ==
    /\ run = 1
    /\ mainPc \in {"done", "raised"}
    /\ \A w \in Workers : pc[w] = "idle"
    /\ run' = 2
    /\ firstStore' = store
    /\ \E resp \in AuthResponses(issued + 1) :
          /\ token' = get_oauth_token(resp)
          /\ headers' = Bearer(token')
          /\ issued' = IF token' = "" THEN issued ELSE issued + 1
    /\ token_acquired_time' = now
    /\ \E order \in Permutations(1..nItems) : queue' = order
    /\ future' = [i \in 1..nItems |-> "PENDING"]
    /\ hist' = [i \in 1..nItems |-> NoHist]
    /\ collected' = {}
    /\ succeeded' = 0
    /\ failed' = 0
    /\ mainPc' = "running"
    /\ UNCHANGED <<stage, nItems, wellFormed>>
    /\ UNCHANGED <<workerVars, clockVars, sinkVars, rateVars, remoteSearch, remoteDetail>>

NextTwice ==
    \/ Submit
    \/ \E i \in Items : Collect(i)
    \/ Complete
    \/ Restart
    \/ \E w \in Workers :
         \/ Take(w)
         \/ EnsureCheck(w)
         \/ SearchTwice(w)
         \/ DetailTwice(w)
         \/ InsertUnique(w)

SpecTwice == InitTwice /\ [][NextTwice]_vars

\* ================================================================= claims

\* C1: while a refresh is due, at most one authentication call is in flight
\* at any moment, however many workers call ensure_token.
C1_AtMostOneRefreshInFlight ==
    Cardinality({w \in Workers : pc[w] = "auth"}) <= 1

\* C2: every submitted item is visited once by the collecting loop and counted
\* once, as succeeded or as failed (the latter when its callable raised); when
\* the run returns, succeeded + failed is the number of submitted items.
C2_ExactlyOneOutcome ==
    /\ collected \subseteq {i \in 1..nItems : Finished(i)}
    /\ succeeded = Cardinality({i \in collected : future[i] = "RETURNED"})
    /\ failed = Cardinality({i \in collected : future[i] = "RAISED"})
    /\ mainPc = "done" =>
          /\ collected = 1..nItems
          /\ succeeded + failed = nItems

C2_Witness ==
    /\ mainPc = "done"
    /\ nItems >= 2
    /\ succeeded >= 1
    /\ failed >= 1

C4_RetainsLastToken ==
    [][\A w \in Workers :
         (pc[w] = "time" /\ pc'[w] = "get" /\ refresh[w] = "failed" /\ prior[w] # "") =>
            /\ token' = prior[w]
            /\ headers' = Bearer(prior[w])]_vars

\* C5: no exception leaves process_keyword, whatever the remote calls and the
\* store write do.
C5_NoExceptionEscapes ==
    stage = "harvest" => \A i \in DOMAIN future : future[i] # "RAISED"

\* C6: when a detail fetch of a keyword fails (and no store write does), a
\* sentinel record is written for it and every match of the keyword is still
\* fetched and written.
C6_SubFetchIsolated ==
    \A i \in DOMAIN future :
        (/\ stage = "harvest"
         /\ Finished(i)
         /\ hist[i].search = "ok"
         /\ hist[i].detailFails >= 1
         /\ hist[i].storeFails = 0) =>
            /\ hist[i].fetched = hist[i].matches
            /\ hist[i].written = hist[i].matches
            /\ hist[i].sentinels = hist[i].detailFails

\* C7: an item whose search met a non-success status or a malformed body ends
\* as a failure, counted in failed, with no detail fetch and nothing stored.
C7_SearchFailureIsFailure ==
    \A i \in DOMAIN future :
        (/\ stage = "harvest"
         /\ Finished(i)
         /\ hist[i].search \in {"http_error", "bad_json"}) =>
            /\ future[i] = "RAISED"
            /\ hist[i].fetched = 0
            /\ hist[i].written = 0

\* C8: a failed store write costs that record only: the later matches of the
\* same keyword are still fetched and written.
C8_StoreFailureIsolated ==
    \A i \in DOMAIN future :
        (/\ stage = "harvest"
         /\ Finished(i)
         /\ hist[i].search = "ok"
         /\ hist[i].detailRaised = 0
         /\ hist[i].storeFails >= 1) =>
            /\ hist[i].fetched = hist[i].matches
            /\ hist[i].written + hist[i].storeFails = hist[i].matches

\* C9: an ensure_token call that finds 1140 s or more elapsed makes one
\* authentication call, then sets the header, then resets the timestamp, and
\* only then reaches the request; one that finds less makes no call and
\* leaves token, header and timestamp as they are.
C9_RefreshThreshold ==
    [][\A w \in Workers :
         /\ (pc[w] = "check" /\ pc'[w] # "check") =>
               IF now - token_acquired_time >= 1140
                 THEN pc'[w] = "auth" /\ refresh'[w] = "calling"
                 ELSE /\ pc'[w] = "get"
                      /\ refresh'[w] = "none"
                      /\ UNCHANGED <<token, headers, token_acquired_time, issued>>
         /\ (pc[w] # "auth" /\ pc'[w] = "auth") => pc[w] = "check"
         /\ (pc[w] = "auth" /\ pc'[w] # "auth") =>
               pc'[w] = "hdr" /\ refresh'[w] \in {"ok", "failed"}
         /\ (pc[w] = "hdr" /\ pc'[w] # "hdr") => pc'[w] = "time"
         /\ (pc[w] = "time" /\ pc'[w] # "time") =>
               pc'[w] = "get" /\ token_acquired_time' = now
         /\ (pc[w] # "get" /\ pc'[w] = "get") => pc[w] \in {"check", "time"}]_vars

C9_Witness ==
    \E w \in Workers :
        /\ pc[w] = "get"
        /\ refresh[w] = "ok"
        /\ now = 1140
        /\ token_acquired_time = 1140
        /\ token # prior[w]

\* C10: an item is run by one thread at a time and once: its future goes
\* PENDING -> RUNNING -> RETURNED or RAISED and never back, the queue holds
\* only pending items, each once, and no two threads hold the same item.
C10_ClaimedOnce ==
    /\ [](\A w1, w2 \in Workers :
            (w1 # w2 /\ cur[w1] # NoItem) => cur[w1] # cur[w2])
    /\ [](\A i \in DOMAIN future :
            /\ future[i] = "RUNNING" <=> \E w \in Workers : cur[w] = i
            /\ future[i] = "PENDING" <=> \E k \in DOMAIN queue : queue[k] = i)
    /\ [](\A k1, k2 \in DOMAIN queue : queue[k1] = queue[k2] => k1 = k2)
    /\ [][\A i \in DOMAIN future :
            i \in DOMAIN future' =>
               \/ future'[i] = future[i]
               \/ future[i] = "PENDING" /\ future'[i] = "RUNNING"
               \/ future[i] = "RUNNING" /\ future'[i] \in {"RETURNED", "RAISED"}]_vars

C10_Witness ==
    /\ nItems >= 2
    /\ cur[1] # NoItem
    /\ cur[2] # NoItem
    /\ cur[1] # cur[2]

\* C11: in the embedding stage a record is in the vector store exactly when
\* its embedding call succeeded (the store call not failing), and the run
\* reports as failed exactly the records whose embedding or store failed.
C11_EmbedOutcome ==
    \A i \in DOMAIN future :
        (stage = "embed" /\ Finished(i)) =>
            /\ hist[i].cfstore \in {"none", "success"} =>
                   ((i \in vectors) <=> (hist[i].embed = "ok"))
            /\ (future[i] = "RAISED") <=>
                   \/ hist[i].embed # "ok"
                   \/ hist[i].cfstore \in {"not_success", "exception"}

\* C13: while no token has ever been obtained, no work item of the
\* harvesting run is dispatched.
C13_NoDispatchWithoutToken ==
    (stage = "harvest" /\ issued = 0) =>
        \A i \in DOMAIN future :
            future[i] = "PENDING" /\ hist[i].search = "none"

\* C17: no thread is about to read the Authorization header while another
\* thread is between assigning the new token and finishing the update, and
\* whenever no refresh is in progress the header is 'Bearer ' + token.
C17_NoReadDuringReplace ==
    /\ \A w \in Workers :
           pc[w] = "get" =>
               \A v \in Workers \ {w} : pc[v] \notin {"hdr", "time"}
    /\ (\A w \in Workers : pc[w] \notin {"auth", "hdr", "time"}) =>
           headers = Bearer(token)

\* C18: every record written to the sink has a non-empty patentNumber and
\* an abstract field that is present.
C18_RecordsWellFormed ==
    \A r \in BagToSet(store) :
        r.patentNumber # "" /\ r.abstract # ""

\* C20: a refresh resets the acquisition timestamp whether or not the
\* authentication call produced a token, and an ensure_token that starts
\* less than token_valid_for - 60 after that reset makes no authentication
\* call: a failed refresh is not retried before the next expiry window.
C20_FailedRefreshNotRetried ==
    [][\A w \in Workers :
          /\ (pc[w] = "time" /\ pc'[w] = "get") =>
                 /\ token_acquired_time' = now
                 /\ token' = token
                 /\ headers' = headers
          /\ (pc[w] = "check" /\ now - token_acquired_time < token_valid_for - REFRESH_MARGIN
                 /\ pc'[w] # "check") =>
                 /\ pc'[w] = "get"
                 /\ refresh'[w] = "none"
                 /\ UNCHANGED clientVars]_vars

\* A thread is about to send a request without having refreshed, after a
\* refresh that failed: the token it sends is the empty one that refresh
\* left, a token had been issued before, and the window was restarted at
\* the time of the failed refresh.
C20_Witness ==
    \E w \in Workers :
        /\ pc[w] = "get"
        /\ refresh[w] = "none"
        /\ issued >= 1
        /\ token = ""
        /\ headers = Bearer("")
        /\ ticks >= 1
        /\ token_acquired_time = now

\* C14: in every reachable state at most MAX_THREADS items are running on
\* a pool thread.
C14_BoundedParallelism ==
    Cardinality({i \in DOMAIN future : future[i] = "RUNNING"}) <= MAX_THREADS

\* The pool is full and an item is waiting for a thread.
C14_Witness ==
    /\ Cardinality({i \in DOMAIN future : future[i] = "RUNNING"}) = MAX_THREADS
    /\ queue # << >>
    /\ \A w \in Workers : pc[w] # "idle"

\* C15: the run returns only after every submitted item has reached a
\* terminal outcome and no thread is still working, and under fair
\* scheduling the run eventually returns.
C15_DrainAndCompletion ==
    /\ [](mainPc = "done" =>
             /\ queue = << >>
             /\ \A i \in 1..nItems : Finished(i)
             /\ \A w \in Workers : pc[w] = "idle" /\ cur[w] = NoItem)
    /\ <>(mainPc \in {"done", "exit"})

\* The run has returned after a full pool with an item waiting behind it.
C15_Witness ==
    /\ mainPc = "done"
    /\ nItems > MAX_THREADS
    /\ \E i \in 1..nItems : future[i] = "RAISED"
    /\ \E i \in 1..nItems : future[i] = "RETURNED"

\* C16: between two consecutive wait() calls of one thread, the second does
\* not return before delay has elapsed since the first returned; and a
\* thread's first wait() never sleeps.
C16_MinInterval ==
    /\ [][\A t \in Workers :
             (waitPc[t] = "release" /\ waitPc'[t] = "out" /\ returned[t] # NoTime) =>
                 now - returned[t] >= Delay]_vars
    /\ [](\A t \in Workers : waitPc[t] = "sleep" => waits[t] >= 1)

\* C16, measured from the timestamp: a wait() call takes its timestamp, and
\* so returns, no earlier than delay after the timestamp that the same
\* thread's previous call took as its last statement; a call never returns
\* before its own timestamp; and a thread's first wait() never sleeps.
C16_MinIntervalFromStamp ==
    /\ [][\A t \in Workers :
             (waitPc[t] = "stamp" /\ waitPc'[t] = "release" /\ t \in DOMAIN last_call) =>
                 now - last_call[t] >= Delay]_vars
    /\ [](\A t \in Workers :
             (waitPc[t] = "out" /\ returned[t] # NoTime) =>
                 t \in DOMAIN last_call /\ returned[t] >= last_call[t])
    /\ [](\A t \in Workers : waitPc[t] = "sleep" => waits[t] >= 1)

\* A thread has returned from its second wait(), in which it slept.
C16_Witness ==
    \E t \in Workers :
        /\ waitPc[t] = "out"
        /\ waits[t] >= 2
        /\ wake[t] > 0
        /\ returned[t] >= Delay

\* C19: a thread that sleeps inside wait() does not hold the shared lock.
C19_SleepOutsideLock ==
    \A t \in Workers : waitPc[t] = "sleep" => lock # t

\* C12: when the second run of the harvesting script on the same keywords
\* has ended, the collection holds the same set of patent numbers as when
\* the first run ended.
C12_Idempotent ==
    (run = 2 /\ mainPc \in {"done", "raised"} /\ \A w \in Workers : pc[w] = "idle") =>
        {r.patentNumber : r \in BagToSet(store)} =
            {r.patentNumber : r \in BagToSet(firstStore)}

\* The second run has ended on two keywords, the collection holds two
\* patent numbers, and a keyword of the second run met a refused insert.
C12_Witness ==
    /\ run = 2
    /\ mainPc = "done"
    /\ nItems >= 2
    /\ Cardinality({r.patentNumber : r \in BagToSet(store)}) >= 2
    /\ \E i \in 1..nItems : hist[i].storeFails >= 1

====
